---- MODULE Spec2Model ----
(***************************************************************************)
(* Model of cargo-clippy-lints (src/src/main.rs): one run of `main`.       *)
(*                                                                         *)
(* A run gets the current directory, ascends from it looking for           *)
(* `lints.toml`, loads the file (or the default configuration), classifies *)
(* the process arguments, builds the `cargo clippy` command line, prints   *)
(* it, spawns the child, waits for it and turns its status into the run's  *)
(* result.                                                                 *)
(*                                                                         *)
(* Paths are absolute and modelled as the sequence of their components     *)
(* (the root is <<>>).  The filesystem is a function from the paths of the *)
(* existing `lints.toml` files to their contents; it does not change       *)
(* during a run.  An error is the anyhow chain, outermost message first,   *)
(* each message a sequence of string tokens.  Writes to stderr are taken   *)
(* to succeed, and Path::exists to answer whether the file is there.       *)
(***************************************************************************)
EXTENDS Integers, Sequences, FiniteSets, TLC

VARIABLES
    pc,           \* position of the run in main / from_config / run_clippy
    cwd,          \* what env::current_dir() returns: [ok, path]
    fs,           \* existing lints.toml files: path -> contents
    argv,         \* std::env::args_os(): the whole process argument vector
    cur_path,     \* find_config_path: the cursor
    visited,      \* history: directories the search has checked, in order
    config_path,  \* find_config_path's result: [some, path]
    text,         \* from_config_with_path: the string read from the file
    lints,        \* the Lints value main holds
    args,         \* the passthrough arguments handed to run_clippy
    cmd_args,     \* the arguments of the Command built by run_clippy
    stderr,       \* the diagnostic line printed by run_clippy
    children,     \* the argument list of every child process children
    waited,       \* number of waits performed on a child
    status,       \* the ExitStatus returned by wait: [seen, kind, code]
    result,       \* main's result: [kind, chain]
    steps         \* history: the steps of the run, in order

vars == <<pc, cwd, fs, argv, cur_path, visited, config_path, text, lints,
          args, cmd_args, stderr, children, waited, status, result, steps>>

----------------------------------------------------------------------------
(* Bounds of the model *)

MaxDepth == 2
MaxFiles == 2
MaxLints == 2
MaxArgs == 3

Min(a, b) == IF a < b THEN a ELSE b

SeqsUpTo(S, n) == UNION {[1..k -> S] : k \in 0..n}

\* Directory names, lint identifiers and argument tokens the inputs draw from.
DirNames == {"a", "b"}
LintNames == {"x", "y"}

----------------------------------------------------------------------------
(* Program constants *)

FILE_NAME == "lints.toml"
SENTINEL == "clippy-lints"
SUBCOMMAND == "clippy"
SEPARATOR == "--"
DENY_MARKER == "-D"
WARN_MARKER == "-W"
ALLOW_MARKER == "-A"

CTX_CWD == "Failed to get current directory"
CTX_READ == "Failed to read config"
CTX_PARSE == "Failed to parse config"
CTX_SPAWN == "Unable to start clippy"
CTX_WAIT == "Unable to wait for clippy"
MSG_STATUS == "Clippy returned non-0 status: "

\* Display of the io::Error / toml::de::Error a failing call carries.
IoErrors == {"No such file or directory (os error 2)",
             "Permission denied (os error 13)"}
TOML_ERROR == "TOML parse error"

----------------------------------------------------------------------------
(* Paths *)

None == [some |-> FALSE, path |-> <<>>]
Some(p) == [some |-> TRUE, path |-> p]

\* Path::join with a single normal component.
Join(p, name) == Append(p, name)

\* Variant of Parent that ascends two levels at once.
ParentSkipsLevel(p) ==
    IF Len(p) = 0 THEN None ELSE Some(SubSeq(p, 1, Len(p) - Min(2, Len(p))))

\* Variant of Parent that does not ascend.
ParentStays(p) == IF Len(p) = 0 THEN None ELSE Some(p)

\* Path::parent of an absolute path: None at the root.
Parent(p) == IF Len(p) = 0 THEN None ELSE Some(SubSeq(p, 1, Len(p) - 1))

\* Path::exists
Exists(p) == p \in DOMAIN fs

----------------------------------------------------------------------------
(* Lints *)

Keys == {"deny", "allow", "warn"}

\* Lints::default(): every list empty.
DefaultLints == [deny |-> <<>>, allow |-> <<>>, warn |-> <<>>]

\* #[serde(default)]: a key of the table, or the empty list when absent.
Field(table, key) ==
    IF \E e \in table : e.key = key
    THEN (CHOOSE e \in table : e.key = key).value
    ELSE <<>>

\* toml::from_str::<Lints>: keys other than the three fields are ignored.
FromStr(t) ==
    [ok |-> t.valid,
     lints |-> [deny |-> Field(t.table, "deny"),
                allow |-> Field(t.table, "allow"),
                warn |-> Field(t.table, "warn")]]

RECURSIVE FlatMapFlagsDedup(_, _)
\* Variant of FlatMapFlags that drops an identifier repeated in a row.
FlatMapFlagsDedup(marker, list) ==
    IF list = <<>> THEN <<>>
    ELSE IF Len(list) > 1 /\ list[1] = list[2]
         THEN FlatMapFlagsDedup(marker, Tail(list))
         ELSE <<marker, Head(list)>> \o FlatMapFlagsDedup(marker, Tail(list))

RECURSIVE FlatMapFlags(_, _)
\* list.iter().flat_map(|lint| vec![marker, lint.clone()]).collect()
FlatMapFlags(marker, list) ==
    IF list = <<>> THEN <<>>
    ELSE <<marker, Head(list)>> \o FlatMapFlags(marker, Tail(list))

deny_flags(l) == FlatMapFlags(DENY_MARKER, l.deny)
warn_flags(l) == FlatMapFlags(WARN_MARKER, l.warn)
allow_flags(l) == FlatMapFlags(ALLOW_MARKER, l.allow)

----------------------------------------------------------------------------
(* Process arguments and exit status *)

NoArg == [some |-> FALSE, val |-> ""]

\* Iterator::nth (0-based): the element, or None past the end.
Nth(s, n) == IF n < Len(s) THEN [some |-> TRUE, val |-> s[n + 1]] ELSE NoArg

RECURSIVE Skip(_, _)
\* Iterator::skip(n): drops the first n elements, or all when there are fewer.
Skip(s, n) == IF n = 0 \/ s = <<>> THEN s ELSE Skip(Tail(s), n - 1)

NoStatus == [seen |-> FALSE, kind |-> "none", code |-> 0]
Exited(c) == [seen |-> TRUE, kind |-> "exit", code |-> c]
Signaled(c) == [seen |-> TRUE, kind |-> "signal", code |-> c]

\* The statuses a child may end with.
Statuses == {Exited(0), Exited(1), Exited(101), Signaled(9)}

\* ExitStatus::success
Success(s) == s.kind = "exit" /\ s.code = 0

\* impl Display for ExitStatus (unix)
StatusDisplay(s) ==
    IF s.kind = "exit" THEN <<"exit status: ", ToString(s.code)>>
    ELSE <<"signal: ", ToString(s.code)>>

----------------------------------------------------------------------------
(* Results *)

Pending == [kind |-> "pending", chain |-> <<>>]
Ok == [kind |-> "ok", chain |-> <<>>]

\* .context(ctx) on a failed call: the context, then the call's own error.
WithContext(ctx, cause) == [kind |-> "err", chain |-> <<<<ctx>>, <<cause>>>>]

\* anyhow::bail!("Clippy returned non-0 status: {}", status)
Bail(s) == [kind |-> "err", chain |-> <<<<MSG_STATUS>> \o StatusDisplay(s)>>]

----------------------------------------------------------------------------
(* find_config_path *)

GetCurrentDir ==
    /\ pc = "current_dir"
    /\ IF cwd.ok
       THEN /\ cur_path' = cwd.path
            /\ pc' = "search"
            /\ result' = result
       ELSE /\ result' = WithContext(CTX_CWD, cwd.err)
            /\ pc' = "done"
            /\ cur_path' = cur_path
    /\ steps' = Append(steps, "current_dir")
    /\ UNCHANGED <<cwd, fs, argv, visited, config_path, text, lints, args,
                   cmd_args, stderr, children, waited, status>>

\* One iteration of the loop whose file exists: break Ok(Some(lints_path)).
SearchFound ==
    /\ pc = "search"
    /\ Exists(Join(cur_path, FILE_NAME))
    /\ config_path' = Some(Join(cur_path, FILE_NAME))
    /\ visited' = Append(visited, cur_path)
    /\ pc' = "from_config"
    /\ steps' = Append(steps, "locate")
    /\ UNCHANGED <<cwd, fs, argv, cur_path, text, lints, args, cmd_args,
                   stderr, children, waited, status, result>>

\* One iteration that misses and has a parent: the cursor becomes the parent.
SearchAscend ==
    /\ pc = "search"
    /\ ~Exists(Join(cur_path, FILE_NAME))
    /\ Parent(cur_path).some
    /\ cur_path' = Parent(cur_path).path
    /\ visited' = Append(visited, cur_path)
    /\ UNCHANGED <<pc, cwd, fs, argv, config_path, text, lints, args,
                   cmd_args, stderr, children, waited, status, result, steps>>

\* One iteration that misses at a directory with no parent: return Ok(None).
SearchNone ==
    /\ pc = "search"
    /\ ~Exists(Join(cur_path, FILE_NAME))
    /\ ~Parent(cur_path).some
    /\ config_path' = None
    /\ visited' = Append(visited, cur_path)
    /\ pc' = "from_config"
    /\ steps' = Append(steps, "locate")
    /\ UNCHANGED <<cwd, fs, argv, cur_path, text, lints, args, cmd_args,
                   stderr, children, waited, status, result>>

----------------------------------------------------------------------------
(* from_config, from_config_with_path *)

\* Variant of FromConfig that reports a missing file as a read failure.
FromConfigMissingIsError ==
    /\ pc = "from_config"
    /\ IF config_path.some
       THEN /\ pc' = "read"
            /\ result' = result
       ELSE /\ result' = WithContext(CTX_READ, "No such file or directory (os error 2)")
            /\ pc' = "done"
    /\ UNCHANGED <<cwd, fs, argv, cur_path, visited, config_path, text, lints,
                   args, cmd_args, stderr, children, waited, status, steps>>

\* map_or_else on the located path: no path gives Lints::default().
FromConfig ==
    /\ pc = "from_config"
    /\ IF config_path.some
       THEN /\ pc' = "read"
            /\ UNCHANGED <<lints, steps>>
       ELSE /\ lints' = DefaultLints
            /\ pc' = "classify"
            /\ steps' = Append(steps, "default")
    /\ UNCHANGED <<cwd, fs, argv, cur_path, visited, config_path, text, args,
                   cmd_args, stderr, children, waited, status, result>>

\* fs::read_to_string(path) succeeds.
ReadOk ==
    /\ pc = "read"
    /\ Exists(config_path.path)
    /\ text' = fs[config_path.path]
    /\ pc' = "parse"
    /\ steps' = Append(steps, "read")
    /\ UNCHANGED <<cwd, fs, argv, cur_path, visited, config_path, lints, args,
                   cmd_args, stderr, children, waited, status, result>>

\* fs::read_to_string(path) fails: the error leaves through `?`.
ReadFail ==
    /\ pc = "read"
    /\ \E e \in IoErrors : result' = WithContext(CTX_READ, e)
    /\ pc' = "done"
    /\ steps' = Append(steps, "read")
    /\ UNCHANGED <<cwd, fs, argv, cur_path, visited, config_path, text, lints,
                   args, cmd_args, stderr, children, waited, status>>

\* Variant of Parse that reports a parse failure under the read context.
ParseWrongContext ==
    /\ pc = "parse"
    /\ IF FromStr(text).ok
       THEN /\ lints' = FromStr(text).lints
            /\ pc' = "classify"
            /\ result' = result
       ELSE /\ result' = WithContext(CTX_READ, TOML_ERROR)
            /\ pc' = "done"
            /\ lints' = lints
    /\ steps' = Append(steps, "parse")
    /\ UNCHANGED <<cwd, fs, argv, cur_path, visited, config_path, text, args,
                   cmd_args, stderr, children, waited, status>>

\* Variant of Parse that falls back to the default configuration.
ParseDefaultsOnError ==
    /\ pc = "parse"
    /\ lints' = IF FromStr(text).ok THEN FromStr(text).lints ELSE DefaultLints
    /\ pc' = "classify"
    /\ steps' = Append(steps, "parse")
    /\ UNCHANGED <<cwd, fs, argv, cur_path, visited, config_path, text, args,
                   cmd_args, stderr, children, waited, status, result>>

\* toml::from_str(&s) on the string read, then .context("Failed to parse config").
Parse ==
    /\ pc = "parse"
    /\ IF FromStr(text).ok
       THEN /\ lints' = FromStr(text).lints
            /\ pc' = "classify"
            /\ result' = result
       ELSE /\ result' = WithContext(CTX_PARSE, TOML_ERROR)
            /\ pc' = "done"
            /\ lints' = lints
    /\ steps' = Append(steps, "parse")
    /\ UNCHANGED <<cwd, fs, argv, cur_path, visited, config_path, text, args,
                   cmd_args, stderr, children, waited, status>>

----------------------------------------------------------------------------
(* main: the passthrough arguments *)

\* Variant of Passthrough that drops the sentinel wherever it occurs.
PassthroughSkipsSentinels(a) ==
    IF Nth(a, 1).some /\ Nth(a, 1).val = SENTINEL
    THEN SelectSeq(Skip(a, 1), LAMBDA x : x # SENTINEL)
    ELSE Skip(a, 1)

\* get_args().nth(1) decides between get_args().skip(2) and get_args().skip(1).
Passthrough(a) ==
    IF Nth(a, 1).some /\ Nth(a, 1).val = SENTINEL THEN Skip(a, 2) ELSE Skip(a, 1)

ClassifyArgs ==
    /\ pc = "classify"
    /\ args' = Passthrough(argv)
    /\ pc' = "build"
    /\ steps' = Append(steps, "classify")
    /\ UNCHANGED <<cwd, fs, argv, cur_path, visited, config_path, text, lints,
                   cmd_args, stderr, children, waited, status, result>>

----------------------------------------------------------------------------
(* run_clippy *)

\* Variant of CommandArgs that emits the deny flags before the warn flags.
CommandArgsDenyFirst(l, a) ==
    <<SUBCOMMAND>> \o a \o <<SEPARATOR>>
        \o deny_flags(l) \o warn_flags(l) \o allow_flags(l)

\* .arg("clippy").args(args).arg("--").args(warn).args(deny).args(allow)
CommandArgs(l, a) ==
    <<SUBCOMMAND>> \o a \o <<SEPARATOR>>
        \o warn_flags(l) \o deny_flags(l) \o allow_flags(l)

BuildCommand ==
    /\ pc = "build"
    /\ cmd_args' = CommandArgs(lints, args)
    /\ pc' = "print"
    /\ steps' = Append(steps, "build")
    /\ UNCHANGED <<cwd, fs, argv, cur_path, visited, config_path, text, lints,
                   args, stderr, children, waited, status, result>>

\* eprint!("Running \"cargo\""), then every argument of the command.
PrintCommand ==
    /\ pc = "print"
    /\ stderr' = <<"cargo">> \o cmd_args
    /\ pc' = "spawn"
    /\ steps' = Append(steps, "print")
    /\ UNCHANGED <<cwd, fs, argv, cur_path, visited, config_path, text, lints,
                   args, cmd_args, children, waited, status, result>>

\* cmd.spawn() starts the child.
SpawnOk ==
    /\ pc = "spawn"
    /\ children' = Append(children, cmd_args)
    /\ pc' = "wait"
    /\ steps' = Append(steps, "spawn")
    /\ UNCHANGED <<cwd, fs, argv, cur_path, visited, config_path, text, lints,
                   args, cmd_args, stderr, waited, status, result>>

\* cmd.spawn() fails: no child, the error leaves through `?`.
SpawnFail ==
    /\ pc = "spawn"
    /\ \E e \in IoErrors : result' = WithContext(CTX_SPAWN, e)
    /\ pc' = "done"
    /\ steps' = Append(steps, "spawn")
    /\ UNCHANGED <<cwd, fs, argv, cur_path, visited, config_path, text, lints,
                   args, cmd_args, stderr, children, waited, status>>

\* child.wait() returns the child's status.
WaitOk ==
    /\ pc = "wait"
    /\ \E s \in Statuses : status' = s
    /\ waited' = waited + 1
    /\ pc' = "check_status"
    /\ steps' = Append(steps, "wait")
    /\ UNCHANGED <<cwd, fs, argv, cur_path, visited, config_path, text, lints,
                   args, cmd_args, stderr, children, result>>

\* child.wait() fails: the error leaves through `?`.
WaitFail ==
    /\ pc = "wait"
    /\ \E e \in IoErrors : result' = WithContext(CTX_WAIT, e)
    /\ waited' = waited + 1
    /\ pc' = "done"
    /\ steps' = Append(steps, "wait")
    /\ UNCHANGED <<cwd, fs, argv, cur_path, visited, config_path, text, lints,
                   args, cmd_args, stderr, children, status>>

\* Variant of StatusResult that never inspects the status.
StatusResultUnchecked(s) == Ok

\* match status { s if s.success() => Ok(()), _ => bail!(..) }
StatusResult(s) == IF Success(s) THEN Ok ELSE Bail(s)

CheckStatus ==
    /\ pc = "check_status"
    /\ result' = StatusResult(status)
    /\ pc' = "done"
    /\ steps' = Append(steps, "check_status")
    /\ UNCHANGED <<cwd, fs, argv, cur_path, visited, config_path, text, lints,
                   args, cmd_args, stderr, children, waited, status>>

----------------------------------------------------------------------------
(* Inputs *)

CwdOk(p) == [ok |-> TRUE, path |-> p, err |-> ""]
CwdErr(e) == [ok |-> FALSE, path |-> <<>>, err |-> e]

Malformed == [valid |-> FALSE, table |-> {}]
Document(table) == [valid |-> TRUE, table |-> table]

\* The tables whose keys are a subset of K, with values drawn from L.
Tables(K, L) ==
    UNION {{{[key |-> k, value |-> f[k]] : k \in S} : f \in [S -> L]} :
           S \in SUBSET K}

\* The filesystems with a lints.toml in each directory of some D, D a set of
\* at most n directories of Ds, and contents drawn from Ts.
Filesystems(Ds, n, Ts) ==
    UNION {[{Join(d, FILE_NAME) : d \in D} -> Ts] :
           D \in {X \in SUBSET Ds : Cardinality(X) <= n}}

InitWith(Cwds, Fss, Argvs) ==
    /\ cwd \in Cwds
    /\ fs \in Fss
    /\ argv \in Argvs
    /\ pc = "current_dir"
    /\ cur_path = <<>>
    /\ visited = <<>>
    /\ config_path = None
    /\ text = Malformed
    /\ lints = DefaultLints
    /\ args = <<>>
    /\ cmd_args = <<>>
    /\ stderr = <<>>
    /\ children = <<>>
    /\ waited = 0
    /\ status = NoStatus
    /\ result = Pending
    /\ steps = <<>>

Next ==
    \/ GetCurrentDir
    \/ SearchFound
    \/ SearchAscend
    \/ SearchNone
    \/ FromConfig
    \/ ReadOk
    \/ ReadFail
    \/ Parse
    \/ ClassifyArgs
    \/ BuildCommand
    \/ PrintCommand
    \/ SpawnOk
    \/ SpawnFail
    \/ WaitOk
    \/ WaitFail
    \/ CheckStatus

----------------------------------------------------------------------------
(* Specifications *)

\* A whole run: a small directory tree, three kinds of file contents, every
\* argument vector of up to MaxArgs elements.
SampleTable == {[key |-> "deny", value |-> <<"x">>],
                [key |-> "allow", value |-> <<"y", "x">>],
                [key |-> "other", value |-> <<"x">>]}
RunTexts == {Malformed, Document({}), Document(SampleTable)}
RunDirs == {<<>>, <<"a">>, <<"a", "b">>}
RunCwds == {CwdOk(d) : d \in RunDirs} \cup {CwdErr(e) : e \in IoErrors}
RunArgvs == SeqsUpTo({SENTINEL, "--fix"}, MaxArgs)

Init == InitWith(RunCwds, Filesystems({<<>>, <<"a">>}, 2, RunTexts), RunArgvs)

Spec == Init /\ [][Next]_vars

\* The search: every starting directory of depth up to MaxDepth, a lints.toml
\* in up to MaxFiles directories of the tree.
Dirs == SeqsUpTo(DirNames, MaxDepth)
LocateCwds == {CwdOk(d) : d \in Dirs} \cup {CwdErr(e) : e \in IoErrors}
LocateFss == UNION {Filesystems(Dirs, MaxFiles, {t}) :
                    t \in {Malformed, Document(SampleTable)}}

InitLocate == InitWith(LocateCwds, LocateFss, {<<"cargo-clippy-lints", "--fix">>})

SpecLocate == InitLocate /\ [][Next]_vars

\* The run is one thread that keeps executing until main returns.
FairSpecLocate == SpecLocate /\ WF_vars(Next)

\* The flags: every configuration whose lists hold up to MaxLints identifiers.
FlagTexts == {Malformed} \cup
             {Document(t) : t \in Tables(Keys, SeqsUpTo(LintNames, MaxLints))}
FlagArgvs == {<<"cargo-clippy-lints">>,
              <<"cargo-clippy-lints", "--fix", SENTINEL>>,
              <<"cargo-clippy-lints", SENTINEL, "--fix", SEPARATOR, "-W">>}

InitFlags == InitWith({CwdOk(<<"a">>)}, Filesystems({<<>>}, 1, FlagTexts), FlagArgvs)

SpecFlags == InitFlags /\ [][Next]_vars

----------------------------------------------------------------------------
(* Properties *)

Range(s) == {s[i] : i \in DOMAIN s}
Did(step) == step \in Range(steps)

\* The starting directory and its ancestors, and those holding a lints.toml.
Ancestors(p) == {SubSeq(p, 1, k) : k \in 0..Len(p)}
Holders == {d \in Ancestors(cwd.path) : Join(d, FILE_NAME) \in DOMAIN fs}

\* C1: once the search has returned, its result is the lints.toml of the
\* deepest directory among the start and its ancestors that holds one, and it
\* is None exactly when none of them holds one; the directory of a returned
\* path is always the start or one of its ancestors.
C1_InnermostMatch ==
    Did("locate") =>
        /\ config_path.some <=> Holders # {}
        /\ config_path.some =>
              \E d \in Holders :
                  /\ \A e \in Holders : Len(e) <= Len(d)
                  /\ config_path.path = Join(d, FILE_NAME)
        /\ config_path.some =>
              \E d \in Ancestors(cwd.path) : config_path.path = Join(d, FILE_NAME)

C1_Witness ==
    /\ Did("locate")
    /\ Cardinality(Holders) >= 2
    /\ Len(visited) >= 2
    /\ config_path.some

\* C2: every iteration of the search that does not end the loop moves the
\* cursor to its parent, one level up and to a directory not checked before;
\* the loop ends only at a match or at the root; and the search, once
\* started, always ends.
C2_SearchTerminates ==
    /\ [][(pc = "search" /\ pc' = "search") =>
             /\ Len(cur_path') = Len(cur_path) - 1
             /\ cur_path' \in Ancestors(cur_path)
             /\ cur_path' \notin Range(visited')]_vars
    /\ [][(pc = "search" /\ pc' # "search") =>
             \/ Join(cur_path, FILE_NAME) \in DOMAIN fs
             \/ cur_path = <<>>]_vars
    /\ ((pc = "search") ~> (pc # "search"))

C2_Witness ==
    /\ Did("locate")
    /\ ~config_path.some
    /\ Len(visited) >= 3

\* C3: with no lints.toml in the working directory or any ancestor, loading
\* gives the all-empty configuration and is no error: the three flag
\* sequences are empty, the command is `clippy`, the passthrough arguments
\* and `--` with nothing after it, and the run fails only at or after the
\* spawn.
C3_DefaultConfig ==
    (cwd.ok /\ Holders = {}) =>
        /\ result.kind = "err" => Did("spawn")
        /\ pc \notin {"current_dir", "search", "from_config"} =>
              /\ Did("default")
              /\ lints = [deny |-> <<>>, allow |-> <<>>, warn |-> <<>>]
              /\ warn_flags(lints) = <<>>
              /\ deny_flags(lints) = <<>>
              /\ allow_flags(lints) = <<>>
        /\ pc \in {"print", "spawn", "wait", "check_status", "done"} =>
              cmd_args = <<"clippy">> \o args \o <<"--">>
        /\ \A i \in DOMAIN children :
              children[i] = <<"clippy">> \o args \o <<"--">>

C3_Witness ==
    /\ cwd.ok
    /\ Holders = {}
    /\ DOMAIN fs # {}
    /\ Len(children) = 1
    /\ Len(args) > 0

\* The list the located file gives for a key (the empty list without the key).
ListInFile(key) ==
    LET table == fs[config_path.path].table
    IN  IF \E e \in table : e.key = key
        THEN (CHOOSE e \in table : e.key = key).value
        ELSE <<>>

\* flags is list's identifiers in order, each preceded by marker.
IsPairs(flags, marker, list) ==
    /\ Len(flags) = 2 * Len(list)
    /\ \A i \in 1..Len(list) :
          /\ flags[2 * i - 1] = marker
          /\ flags[2 * i] = list[i]

ConfigLoaded ==
    /\ Did("parse")
    /\ pc \in {"classify", "build", "print", "spawn", "wait", "check_status", "done"}
    /\ (pc = "done" => Did("classify"))

\* C4: for a configuration loaded from a file, each category's flag sequence
\* is twice as long as the list the file gives for it and holds, in the
\* list's order, the category's marker followed by the identifier (-D for
\* deny, -W for warn, -A for allow, pairwise distinct); duplicates are kept.
C4_FlagPairs ==
    ConfigLoaded =>
        /\ IsPairs(deny_flags(lints), "-D", ListInFile("deny"))
        /\ IsPairs(warn_flags(lints), "-W", ListInFile("warn"))
        /\ IsPairs(allow_flags(lints), "-A", ListInFile("allow"))
        /\ DENY_MARKER # WARN_MARKER
        /\ DENY_MARKER # ALLOW_MARKER
        /\ WARN_MARKER # ALLOW_MARKER

C4_Witness ==
    /\ ConfigLoaded
    /\ pc = "build"
    /\ lints.deny = <<"x", "x">>
    /\ lints.warn = <<"y", "x">>
    /\ lints.allow = <<>>

\* The marker and identifier pairs of a list, position by position.
Pairs(marker, list) ==
    [i \in 1..(2 * Len(list)) |-> IF i % 2 = 1 THEN marker ELSE list[i \div 2]]

ExpectedCommand ==
    <<"clippy">> \o args \o <<"--">>
        \o Pairs("-W", lints.warn) \o Pairs("-D", lints.deny)
        \o Pairs("-A", lints.allow)

\* C5: the command built by run_clippy, and the argument list of the child
\* spawned from it, is `clippy`, the passthrough arguments, `--`, the warn
\* flags, the deny flags, the allow flags, in that order.
C5_CommandLayout ==
    /\ Did("build") => cmd_args = ExpectedCommand
    /\ \A i \in DOMAIN children : children[i] = ExpectedCommand

C5_Witness ==
    /\ Len(children) = 1
    /\ Len(args) > 1
    /\ lints.warn # <<>>
    /\ lints.deny # <<>>
    /\ lints.allow # <<>>

\* C6: the passthrough arguments are argv[2..] when argv[1] exists and is the
\* sentinel, and argv[1..] otherwise (0-based); only argv[1] is inspected.
C6_ArgumentSkipping ==
    Did("classify") =>
        args = IF Len(argv) >= 2 /\ argv[2] = "clippy-lints"
               THEN SubSeq(argv, 3, Len(argv))
               ELSE SubSeq(argv, 2, Len(argv))

C6_Witness ==
    /\ Did("classify")
    /\ Len(argv) >= 3
    /\ argv[2] = SENTINEL
    /\ argv[3] = SENTINEL
    /\ args # <<>>
    /\ args[1] = SENTINEL

Tokens(chain) == UNION {Range(chain[i]) : i \in DOMAIN chain}

\* C7: once the child has been awaited and the run has ended, the run
\* succeeded iff the child exited with code 0; otherwise it failed with the
\* status message, which holds the child's status value and is neither the
\* spawn failure's nor the wait failure's message.
C7_StatusPropagation ==
    (status.seen /\ pc = "done") =>
        /\ result.kind = "ok" <=> (status.kind = "exit" /\ status.code = 0)
        /\ result.kind # "ok" =>
              /\ result.kind = "err"
              /\ result.chain[1][1] = "Clippy returned non-0 status: "
              /\ ToString(status.code) \in Range(result.chain[1])
              /\ result.chain[1][1] \notin {CTX_SPAWN, CTX_WAIT}

C7_Witness ==
    /\ pc = "done"
    /\ status.seen
    /\ status.kind = "exit"
    /\ status.code = 1
    /\ result.kind = "err"

ReadFailure == result.kind = "err" /\ result.chain[1] = <<"Failed to read config">>
ParseFailure == result.kind = "err" /\ result.chain[1] = <<"Failed to parse config">>

\* C8: a file that is found and cannot be read ends the run with the read
\* failure; a file that is read and is not valid ends it with the parse
\* failure; the two differ; a parse failure comes only after a successful
\* read; and with no file found neither is reported.
C8_LoadFailureStages ==
    /\ (pc = "done" /\ steps[Len(steps)] = "read") =>
          (ReadFailure /\ config_path.some /\ ~Did("parse"))
    /\ (Did("parse") /\ ~fs[config_path.path].valid) =>
          (ParseFailure /\ pc = "done")
    /\ ReadFailure => (steps[Len(steps)] = "read" /\ ~ParseFailure)
    /\ ParseFailure =>
          /\ Did("read")
          /\ steps[Len(steps)] = "parse"
          /\ text = fs[config_path.path]
          /\ ~text.valid
    /\ (Did("locate") /\ ~config_path.some) => (~ReadFailure /\ ~ParseFailure)

C8_Witness ==
    /\ ParseFailure
    /\ Len(visited) >= 2

\* Path::display: the components, each after a separator.
RECURSIVE PathDisplay(_)
PathDisplay(p) ==
    IF p = <<>> THEN <<>> ELSE <<"/", Head(p)>> \o PathDisplay(Tail(p))

\* Some message of the chain holds the displayed path.
Mentions(chain, p) ==
    \E i \in DOMAIN chain :
        \E j \in 0..(Len(chain[i]) - Len(PathDisplay(p))) :
            SubSeq(chain[i], j + 1, j + Len(PathDisplay(p))) = PathDisplay(p)

\* C9: a failed load reports the stage that failed and the path of the
\* config file involved.
C9_LoadFailureNamesPath ==
    (ReadFailure \/ ParseFailure) =>
        /\ result.chain[1][1] \in {CTX_READ, CTX_PARSE}
        /\ Mentions(result.chain, config_path.path)

Rank(step) ==
    CASE step = "current_dir" -> 1
      [] step = "locate" -> 2
      [] step = "read" -> 3
      [] step \in {"parse", "default"} -> 4
      [] step = "classify" -> 5
      [] step = "build" -> 6
      [] step = "print" -> 7
      [] step = "spawn" -> 8
      [] step = "wait" -> 9
      [] step = "check_status" -> 10

\* C10: the steps of a run happen in the order locate, load, build, print,
\* spawn, wait, inspect, each at most once; at most one child is spawned, and
\* only with a configuration obtained from a valid file or by default for a
\* missing one; a failure ends the run at the step that failed; after a
\* working-directory, read or parse failure there is no child and no default
\* configuration; after a spawn failure there is no wait.
C10_FatalOrderedRun ==
    /\ \A i, j \in DOMAIN steps : i < j => Rank(steps[i]) < Rank(steps[j])
    /\ Len(children) <= 1
    /\ waited <= Len(children)
    /\ children # <<>> =>
          \/ (Did("default") /\ ~config_path.some /\ lints = DefaultLints)
          \/ (Did("parse") /\ fs[config_path.path].valid
                /\ lints = FromStr(fs[config_path.path]).lints)
    /\ result.kind = "err" => pc = "done"
    /\ pc = "done" => result.kind \in {"ok", "err"}
    /\ (pc = "done" /\ ~cwd.ok) =>
          (result.kind = "err" /\ result.chain[1] = <<CTX_CWD>> /\ steps = <<"current_dir">>)
    /\ (pc = "done" /\ steps[Len(steps)] \in {"current_dir", "read", "parse"}) =>
          /\ result.kind = "err"
          /\ children = <<>>
          /\ ~Did("default")
          /\ ~Did("spawn")
    /\ (pc = "done" /\ steps[Len(steps)] = "spawn") =>
          /\ result.kind = "err"
          /\ result.chain[1] = <<CTX_SPAWN>>
          /\ children = <<>>
          /\ waited = 0

C10_Witness ==
    /\ pc = "done"
    /\ Did("parse")
    /\ Len(children) = 1
    /\ waited = 1
    /\ result.kind = "ok"

====
